---- MODULE Spec2Model ----
(***************************************************************************)
(* A model of the Tech-Thrive PIR server (src/server/app).                 *)
(*                                                                         *)
(* State: the catalog table (catalog.py), the chunk directory on disk      *)
(* (preprocess.py, admin.py), the in-memory chunk cache and the dict       *)
(* objects behind it (loader.py), the session store (session.py) and the   *)
(* position and locals of every request handler of main.py.                *)
(*                                                                         *)
(* Scheduling: FastAPI runs the plain `def` routes (/kpir, /session,       *)
(* DELETE /admin/modules) in worker threads and the `async def` route      *)
(* (/admin/upload) on the event loop thread, so handlers interleave        *)
(* between any two accesses of shared state.  Each action below is one     *)
(* such access together with the local computation around it.              *)
(*                                                                         *)
(* Scaling: CHUNK_SIZE is 4096 and SESSION_TTL is 900 in config.py; the    *)
(* model keeps the code's arithmetic and runs it with small values.        *)
(***************************************************************************)
EXTENDS Integers, Sequences, FiniteSets, TLC

\* ---------------------------------------------------------------- config.py
\* CHUNK_SIZE (4096 bytes) and SESSION_TTL (900 seconds) are scaled down; K is 3
CHUNK_SIZE == 2
K == 3
SESSION_TTL == 2
ADMIN_SECRET == "secret"

\* ------------------------------------------------------------------- bounds
MaxModules == 2      \* ids the catalog hands out in one run
MaxPayload == 3      \* longest compressed payload, in bytes
MaxTokens == 2       \* session tokens issued in one run
MaxTime == 4         \* last tick of the wall clock
MaxPirModules == 2   \* modules of the caches the engine is applied to
MaxQuizzes == 2      \* quiz questions added in one run

\* ------------------------------------------------------------------ helpers
EmptyMap == [x \in {} |-> 0]

Put(f, k, v) == [x \in (DOMAIN f) \cup {k} |-> IF x = k THEN v ELSE f[x]]

Del(f, k) == [x \in (DOMAIN f) \ {k} |-> f[x]]

Min(S) == CHOOSE x \in S : \A y \in S : x <= y

RECURSIVE SortedSeq(_)
\* sorted(...) of a set of integers
SortedSeq(S) == IF S = {} THEN <<>> ELSE <<Min(S)>> \o SortedSeq(S \ {Min(S)})

Range(s) == {s[i] : i \in DOMAIN s}

\* ------------------------------------------------------------ preprocess.py
\* The bytes gzip.compress can return: non-empty byte strings.  One payload
\* of every length up to MaxPayload.
Payloads == {[i \in 1..n |-> (85 * i) % 256] : n \in 1..MaxPayload}

\* range(0, compressed_size, CHUNK_SIZE)
ChunkCount(compressed) == (Len(compressed) + CHUNK_SIZE - 1) \div CHUNK_SIZE

\* A slice that stops one byte early: compressed[i:i + CHUNK_SIZE - 1]
ChunkSliceShort(compressed, j) ==
    LET lo == j * CHUNK_SIZE
        hi == IF lo + CHUNK_SIZE - 1 < Len(compressed) THEN lo + CHUNK_SIZE - 1 ELSE Len(compressed)
    IN  [i \in 1..(hi - lo) |-> compressed[lo + i]]

\* compressed[i:i + CHUNK_SIZE] for the j-th start i = j * CHUNK_SIZE
ChunkSlice(compressed, j) ==
    LET lo == j * CHUNK_SIZE
        hi == IF lo + CHUNK_SIZE < Len(compressed) THEN lo + CHUNK_SIZE ELSE Len(compressed)
    IN  [i \in 1..(hi - lo) |-> compressed[lo + i]]

\* chunks = [compressed[i:i + CHUNK_SIZE] for i in range(...)], keyed by index
ChunkList(compressed) ==
    [j \in 0..(ChunkCount(compressed) - 1) |-> ChunkSlice(compressed, j)]

\* -------------------------------------------------------------------- state
VARIABLES
    modules,    \* catalog.py: the modules table, id -> row
    seq,        \* catalog.py: the AUTOINCREMENT sequence of the modules table
    chunkDir,   \* whether CHUNK_DIR exists
    disk,       \* CHUNK_DIR: module directory -> (chunk index -> bytes of <index>.bin)
    heap,       \* loader.py: the dict objects the name CHUNKS has been bound to
    CHUNKS,     \* loader.py: the dict the global CHUNKS is bound to now
    preCache,   \* the mapping CHUNKS held when the reload in progress began
    pc,         \* position of the upload and of the delete handler
    result,     \* status of the last response of each admin handler
    up,         \* locals of handle_upload / process_module
    dl,         \* locals of remove_module / delete_module_files
    pl          \* locals of preload_chunks, per handler running it

cacheVars == <<modules, seq, chunkDir, disk, heap, CHUNKS, preCache, pc, result, up, dl, pl>>

VARIABLES
    kpc,        \* position of the /kpir handler
    kReq,       \* the KpirRequest being served
    kSess,      \* validate_session: the local `session`
    kRef,       \* kpir: the dict `chunks` refers to (engine.cache), 0 when none
    kIds,       \* ByteKpirEngine.module_ids
    kN,         \* kpir: n_modules read by the route
    kOut        \* the response of the /kpir handler

kpirVars == <<kpc, kReq, kSess, kRef, kIds, kN, kOut>>

VARIABLES
    SESSIONS,   \* session.py: the tokens that are keys of SESSIONS
    expires,    \* session.py: the "expires" field of each token's session dict
    issued,     \* number of tokens secrets.token_hex has returned
    now,        \* time.time()
    spc,        \* position of the /session handler
    sl,         \* locals of create_session / _cleanup_expired
    sOut,       \* the response of the /session handler
    chain       \* per token: when it was created, when validate_session last returned
                \* True for it (its creation before that), and whether every
                \* validate_session of it so far returned less than SESSION_TTL later

sessionVars == <<SESSIONS, expires, issued, now, spc, sl, sOut, chain>>

VARIABLES
    pirCache,   \* a cache handed to ByteKpirEngine
    pirIdx,     \* chunk_idx
    pirVectors, \* vectors
    pirOther,   \* vectors that differ from pirVectors only at modules without the chunk
    pirOut,     \* compute(pirVectors, pirIdx)
    pirOtherOut \* compute(pirOther, pirIdx)

pirVars == <<pirCache, pirIdx, pirVectors, pirOther, pirOut, pirOtherOut>>

VARIABLES
    ipc,        \* position of the /integrity handler
    iReq,       \* its query parameters module_id and chunk_index
    iRef,       \* integrity: the dict `chunks` refers to, 0 when none
    iOut        \* the response of the /integrity handler

integrityVars == <<ipc, iReq, iRef, iOut>>

VARIABLES
    quizzes,    \* catalog.py: the quizzes table, id -> module_id
    qseq,       \* catalog.py: the AUTOINCREMENT sequence of the quizzes table
    qOut,       \* what the last catalog call on a module or quiz returned
    assigned    \* the ids add_module has returned so far

quizVars == <<quizzes, qseq, qOut, assigned>>

VARIABLES
    bRows,      \* a modules table, id -> [topic, tier]
    bQuery,     \* the arguments topic and tier of a get_bucket call
    bOut        \* the ids of the rows get_bucket returned, in order

bucketVars == <<bRows, bQuery, bOut>>

auxVars == <<integrityVars, quizVars, bucketVars>>

vars == <<cacheVars, kpirVars, sessionVars, pirVars, auxVars>>

Procs == {"upload", "delete"}

DictIds == {1, 2}

Ids == 1..MaxModules

NoLocals == [valid_ids |-> {}, dirs |-> {}, module_id |-> 0, files |-> {},
             chunk_index |-> 0, data |-> <<>>]

NoUpload == [module_id |-> 0, compressed |-> <<>>, chunks |-> EmptyMap, idx |-> 0]

NoDelete == [module_id |-> 0, entries |-> {}]

\* the positions inside preload_chunks after it has rebound CHUNKS
PreloadPcs == {"exists", "valid", "listdir", "isdir", "assign", "listfiles", "open", "store"}

\* a reload is under way: some handler is inside preload_chunks, past loader.py:22
InReload == \E p \in Procs : pc[p] \in PreloadPcs

OthersInReload(p) == \E q \in Procs \ {p} : pc[q] \in PreloadPcs

\* ---------------------------------------------------------------- loader.py
\* get_chunks(): the dict the global is bound to, as the caller sees it now
get_chunks == heap[CHUNKS]

\* An unhandled exception ends the handler with a 500 response.
Raise(p) ==
    /\ pc' = [pc EXCEPT ![p] = "idle"]
    /\ result' = [result EXCEPT ![p] = "500"]
    /\ pl' = [pl EXCEPT ![p] = NoLocals]
    /\ up' = IF p = "upload" THEN NoUpload ELSE up
    /\ dl' = IF p = "delete" THEN NoDelete ELSE dl
    /\ preCache' = IF OthersInReload(p) THEN preCache ELSE EmptyMap

\* preload_chunks returned; handle_upload and remove_module then answer 200.
Return(p) ==
    /\ pc' = [pc EXCEPT ![p] = "idle"]
    /\ result' = [result EXCEPT ![p] = "200"]
    /\ pl' = [pl EXCEPT ![p] = NoLocals]
    /\ up' = IF p = "upload" THEN NoUpload ELSE up
    /\ dl' = IF p = "delete" THEN NoDelete ELSE dl
    /\ preCache' = IF OthersInReload(p) THEN preCache ELSE EmptyMap

\* The dict object a `{}` evaluates to: one no reference is left to.
NewDict == Min(DictIds \ {kRef, iRef})

\* loader.py:22  CHUNKS = {}
PreloadReset(p) ==
    /\ pc[p] = "reset"
    /\ CHUNKS' = NewDict
    /\ heap' = [d \in DictIds |-> IF d \in {kRef, iRef} /\ d # NewDict THEN heap[d] ELSE EmptyMap]
    /\ preCache' = IF OthersInReload(p) THEN preCache ELSE heap[CHUNKS]
    /\ pc' = [pc EXCEPT ![p] = "exists"]
    /\ UNCHANGED <<modules, seq, chunkDir, disk, result, up, dl, pl>>

\* loader.py:24-25  if not os.path.exists(CHUNK_DIR): return
PreloadExists(p) ==
    /\ pc[p] = "exists"
    /\ IF chunkDir
       THEN /\ pc' = [pc EXCEPT ![p] = "valid"]
            /\ UNCHANGED <<result, up, dl, pl, preCache>>
       ELSE Return(p)
    /\ UNCHANGED <<modules, seq, chunkDir, disk, heap, CHUNKS>>

\* loader.py:9-17  SELECT id FROM modules
_get_valid_module_ids == DOMAIN modules

\* loader.py:27  valid_ids = _get_valid_module_ids()
PreloadValid(p) ==
    /\ pc[p] = "valid"
    /\ pl' = [pl EXCEPT ![p].valid_ids = _get_valid_module_ids]
    /\ pc' = [pc EXCEPT ![p] = "listdir"]
    /\ UNCHANGED <<modules, seq, chunkDir, disk, heap, CHUNKS, preCache, result, up, dl>>

\* loader.py:29  os.listdir(CHUNK_DIR)
PreloadListdir(p) ==
    /\ pc[p] = "listdir"
    /\ pl' = [pl EXCEPT ![p].dirs = DOMAIN disk]
    /\ pc' = [pc EXCEPT ![p] = "isdir"]
    /\ UNCHANGED <<modules, seq, chunkDir, disk, heap, CHUNKS, preCache, result, up, dl>>

\* loader.py:29-33  next entry of the listing; skipped when it is no directory
\* (any more); the function returns when the listing is exhausted
PreloadIsdir(p) ==
    /\ pc[p] = "isdir"
    /\ IF pl[p].dirs = {}
       THEN Return(p)
       ELSE /\ \E d \in pl[p].dirs :
                 /\ pl' = [pl EXCEPT ![p].dirs = @ \ {d}, ![p].module_id = d]
                 /\ pc' = [pc EXCEPT ![p] = IF d \in DOMAIN disk THEN "assign" ELSE "isdir"]
            /\ UNCHANGED <<result, up, dl, preCache>>
    /\ UNCHANGED <<modules, seq, chunkDir, disk, heap, CHUNKS>>

\* loader.py:41  if module_id not in valid_ids: continue
IsStale(p) == pl[p].module_id \notin pl[p].valid_ids

\* loader.py:35-44  CHUNKS[module_id] = {}
PreloadAssign(p) ==
    /\ pc[p] = "assign"
    /\ IF IsStale(p)
       THEN /\ pc' = [pc EXCEPT ![p] = "isdir"]
            /\ UNCHANGED heap
       ELSE /\ heap' = [heap EXCEPT ![CHUNKS] = Put(@, pl[p].module_id, EmptyMap)]
            /\ pc' = [pc EXCEPT ![p] = "listfiles"]
    /\ UNCHANGED <<modules, seq, chunkDir, disk, CHUNKS, preCache, result, up, dl, pl>>

\* loader.py:46  os.listdir(module_path); FileNotFoundError when it is gone
PreloadListfiles(p) ==
    /\ pc[p] = "listfiles"
    /\ IF pl[p].module_id \in DOMAIN disk
       THEN /\ pl' = [pl EXCEPT ![p].files = DOMAIN disk[pl[p].module_id]]
            /\ pc' = [pc EXCEPT ![p] = "open"]
            /\ UNCHANGED <<result, up, dl, preCache>>
       ELSE Raise(p)
    /\ UNCHANGED <<modules, seq, chunkDir, disk, heap, CHUNKS>>

\* loader.py:46-58  next file of the listing: open(file_path, "rb") and f.read();
\* FileNotFoundError when the file is gone
PreloadOpen(p) ==
    /\ pc[p] = "open"
    /\ IF pl[p].files = {}
       THEN /\ pc' = [pc EXCEPT ![p] = "isdir"]
            /\ UNCHANGED <<result, up, dl, pl, preCache>>
       ELSE \E j \in pl[p].files :
              IF pl[p].module_id \in DOMAIN disk /\ j \in DOMAIN disk[pl[p].module_id]
              THEN /\ pl' = [pl EXCEPT ![p].files = @ \ {j}, ![p].chunk_index = j,
                                       ![p].data = disk[pl[p].module_id][j]]
                   /\ pc' = [pc EXCEPT ![p] = "store"]
                   /\ UNCHANGED <<result, up, dl, preCache>>
              ELSE Raise(p)
    /\ UNCHANGED <<modules, seq, chunkDir, disk, heap, CHUNKS>>

\* loader.py:58  CHUNKS[module_id][chunk_index] = <bytes read>; KeyError when the
\* dict CHUNKS is bound to by now has no such module
PreloadStore(p) ==
    /\ pc[p] = "store"
    /\ IF pl[p].module_id \in DOMAIN heap[CHUNKS]
       THEN /\ heap' = [heap EXCEPT ![CHUNKS][pl[p].module_id] =
                                        Put(@, pl[p].chunk_index, pl[p].data)]
            /\ pl' = [pl EXCEPT ![p].data = <<>>, ![p].chunk_index = 0]
            /\ pc' = [pc EXCEPT ![p] = "open"]
            /\ UNCHANGED <<result, up, dl, preCache>>
       ELSE /\ Raise(p)
            /\ UNCHANGED heap
    /\ UNCHANGED <<modules, seq, chunkDir, disk, CHUNKS>>

\* loader.py:20-58
preload_chunks(p) ==
    \/ PreloadReset(p)
    \/ PreloadExists(p)
    \/ PreloadValid(p)
    \/ PreloadListdir(p)
    \/ PreloadIsdir(p)
    \/ PreloadAssign(p)
    \/ PreloadListfiles(p)
    \/ PreloadOpen(p)
    \/ PreloadStore(p)

\* --------------------------------------------------------------- catalog.py
\* A module row inserted the way INTEGER PRIMARY KEY without AUTOINCREMENT
\* assigns ids: one more than the largest id in the table
add_module_rowid(chunk_count, compressed_size) ==
    /\ seq' = seq + 1
    /\ modules' = Put(modules, (IF modules = EmptyMap THEN 0
                                ELSE CHOOSE x \in DOMAIN modules : \A y \in DOMAIN modules : y <= x) + 1,
                      [chunk_count |-> chunk_count, compressed_size |-> compressed_size])

\* catalog.py:54-70  INSERT INTO modules ...; cursor.lastrowid.  The id comes
\* from the AUTOINCREMENT sequence (catalog.py:18).
add_module(chunk_count, compressed_size) ==
    /\ seq' = seq + 1
    /\ modules' = Put(modules, seq + 1,
                      [chunk_count |-> chunk_count, compressed_size |-> compressed_size])

\* catalog.py:112-119  DELETE FROM modules WHERE id=?; the returned flag
delete_module(module_id) == module_id \in DOMAIN modules

\* catalog.py:73-109  get_bucket() without filters: ids of all rows, ORDER BY id ASC
get_bucket == SortedSeq(DOMAIN modules)

\* sqlite3.connect(DB_PATH): PRAGMA foreign_keys of a new connection is OFF;
\* catalog.py:13 turns it on for the connection of init_db only, and
\* catalog.py:113 opens a connection of its own
foreign_keys == FALSE

\* catalog.py:34-43  what ON DELETE CASCADE leaves of the quizzes table when the
\* row of module_id is deleted on a connection that enforces foreign keys
Cascade(module_id) ==
    [q \in {x \in DOMAIN quizzes : quizzes[x] # module_id} |-> quizzes[q]]

\* catalog.py:145-169  get_quiz(module_id): ids of its questions, ORDER BY id ASC
get_quiz(module_id) == SortedSeq({q \in DOMAIN quizzes : quizzes[q] = module_id})

\* the catalog variables a call on the tables leaves alone
CatalogOnly == UNCHANGED <<chunkDir, disk, heap, CHUNKS, preCache, pc, result, up, dl, pl>>

\* catalog.py:54-70  add_module(...) is called and returns cursor.lastrowid
CatAddModule ==
    /\ seq < MaxModules
    /\ \E compressed \in Payloads : add_module(ChunkCount(compressed), Len(compressed))
    /\ LET module_id == CHOOSE i \in DOMAIN modules' : i \notin DOMAIN modules IN
         /\ qOut' = [call |-> "add_module", id |-> module_id, ok |-> TRUE]
         /\ assigned' = assigned \cup {module_id}
    /\ UNCHANGED <<quizzes, qseq>>
    /\ CatalogOnly

\* catalog.py:112-119  delete_module(module_id) is called
CatDeleteModule ==
    /\ \E module_id \in Ids :
         /\ modules' = Del(modules, module_id)
         /\ quizzes' = IF foreign_keys THEN Cascade(module_id) ELSE quizzes
         /\ qOut' = [call |-> "delete_module", id |-> module_id, ok |-> delete_module(module_id)]
    /\ UNCHANGED <<seq, qseq, assigned>>
    /\ CatalogOnly

\* catalog.py:122-142  add_quiz_question: ValueError when the module has no row
add_quiz_question ==
    /\ qseq < MaxQuizzes
    /\ \E module_id \in Ids :
         IF module_id \notin DOMAIN modules
         THEN /\ qOut' = [call |-> "add_quiz_question", id |-> 0, ok |-> FALSE]
              /\ UNCHANGED <<quizzes, qseq>>
         ELSE /\ quizzes' = Put(quizzes, qseq + 1, module_id)
              /\ qseq' = qseq + 1
              /\ qOut' = [call |-> "add_quiz_question", id |-> qseq + 1, ok |-> TRUE]
    /\ UNCHANGED <<modules, seq, assigned>>
    /\ CatalogOnly

\* catalog.py:172-181  delete_quiz_question(question_id)
delete_quiz_question ==
    /\ \E question_id \in 1..MaxQuizzes :
         /\ quizzes' = Del(quizzes, question_id)
         /\ qOut' = [call |-> "delete_quiz_question", id |-> question_id,
                     ok |-> question_id \in DOMAIN quizzes]
    /\ UNCHANGED <<modules, seq, qseq, assigned>>
    /\ CatalogOnly

\* ---------------------------------------------- admin.py / preprocess.py
\* main.py:198-209, admin.py:12-31, preprocess.py:18-33: the admin key is
\* checked, the file saved, compressed and sliced, and the row inserted.
UploadStart ==
    /\ pc["upload"] = "idle"
    /\ seq < MaxModules
    /\ \E admin_key \in {ADMIN_SECRET, "wrong"}, compressed \in Payloads :
         IF admin_key # ADMIN_SECRET
         THEN /\ result' = [result EXCEPT !["upload"] = "403"]
              /\ UNCHANGED <<modules, seq, pc, up>>
         ELSE /\ add_module(ChunkCount(compressed), Len(compressed))
              /\ up' = [module_id |-> seq + 1, compressed |-> compressed,
                        chunks |-> ChunkList(compressed), idx |-> 0]
              /\ pc' = [pc EXCEPT !["upload"] = "makedirs"]
              /\ result' = [result EXCEPT !["upload"] = "none"]
    /\ UNCHANGED <<chunkDir, disk, heap, CHUNKS, preCache, dl, pl>>

\* preprocess.py:36-37  os.makedirs(module_folder, exist_ok=True)
UploadMakedirs ==
    /\ pc["upload"] = "makedirs"
    /\ chunkDir' = TRUE
    /\ disk' = IF up.module_id \in DOMAIN disk THEN disk
               ELSE Put(disk, up.module_id, EmptyMap)
    /\ pc' = [pc EXCEPT !["upload"] = "write"]
    /\ UNCHANGED <<modules, seq, heap, CHUNKS, preCache, result, up, dl, pl>>

\* preprocess.py:39-41  one chunk file written; FileNotFoundError when the
\* folder is gone.  After the last chunk handle_upload calls preload_chunks.
UploadWrite ==
    /\ pc["upload"] = "write"
    /\ IF up.module_id \in DOMAIN disk
       THEN /\ disk' = [disk EXCEPT ![up.module_id] = Put(@, up.idx, up.chunks[up.idx])]
            /\ up' = [up EXCEPT !.idx = @ + 1]
            /\ pc' = [pc EXCEPT !["upload"] =
                          IF up.idx + 1 \in DOMAIN up.chunks THEN "write" ELSE "reset"]
            /\ UNCHANGED <<result, dl, pl, preCache>>
       ELSE /\ Raise("upload")
            /\ UNCHANGED disk
    /\ UNCHANGED <<modules, seq, chunkDir, heap, CHUNKS>>

\* main.py:198-216, admin.py:12-36
upload_module ==
    \/ UploadStart
    \/ UploadMakedirs
    \/ UploadWrite
    \/ preload_chunks("upload")

\* DeleteStart with the admin key compared after delete_module has run
DeleteStartLateAuth ==
    /\ pc["delete"] = "idle"
    /\ \E admin_key \in {ADMIN_SECRET, "wrong"}, module_id \in Ids :
         IF ~delete_module(module_id)
         THEN /\ result' = [result EXCEPT !["delete"] = "404"]
              /\ UNCHANGED <<modules, pc, dl>>
         ELSE IF admin_key # ADMIN_SECRET
         THEN /\ modules' = Del(modules, module_id)
              /\ result' = [result EXCEPT !["delete"] = "403"]
              /\ UNCHANGED <<pc, dl>>
         ELSE /\ modules' = Del(modules, module_id)
              /\ dl' = [module_id |-> module_id, entries |-> {}]
              /\ pc' = [pc EXCEPT !["delete"] = "rmtree"]
              /\ result' = [result EXCEPT !["delete"] = "none"]
    /\ UNCHANGED <<seq, chunkDir, disk, heap, CHUNKS, preCache, up, pl>>

\* main.py:219-226  admin key, then delete_module(module_id)
DeleteStart ==
    /\ pc["delete"] = "idle"
    /\ \E admin_key \in {ADMIN_SECRET, "wrong"}, module_id \in Ids :
         IF admin_key # ADMIN_SECRET
         THEN /\ result' = [result EXCEPT !["delete"] = "403"]
              /\ UNCHANGED <<modules, pc, dl>>
         ELSE IF ~delete_module(module_id)
         THEN /\ result' = [result EXCEPT !["delete"] = "404"]
              /\ UNCHANGED <<modules, pc, dl>>
         ELSE /\ modules' = Del(modules, module_id)
              /\ dl' = [module_id |-> module_id, entries |-> {}]
              /\ pc' = [pc EXCEPT !["delete"] = "rmtree"]
              /\ result' = [result EXCEPT !["delete"] = "none"]
    /\ UNCHANGED <<seq, chunkDir, disk, heap, CHUNKS, preCache, up, pl>>

\* admin.py:41-43  if os.path.isdir(folder): shutil.rmtree(folder) lists the folder
DeleteRmtree ==
    /\ pc["delete"] = "rmtree"
    /\ IF dl.module_id \in DOMAIN disk
       THEN /\ dl' = [dl EXCEPT !.entries = DOMAIN disk[dl.module_id]]
            /\ pc' = [pc EXCEPT !["delete"] = "unlink"]
       ELSE /\ pc' = [pc EXCEPT !["delete"] = "reset"]
            /\ UNCHANGED dl
    /\ UNCHANGED <<modules, seq, chunkDir, disk, heap, CHUNKS, preCache, result, up, pl>>

\* admin.py:43  shutil.rmtree: the listed files are unlinked one by one, then
\* the folder is removed; OSError when a file has been added to it meanwhile.
\* main.py:230 then calls preload_chunks.
DeleteUnlink ==
    /\ pc["delete"] = "unlink"
    /\ IF dl.entries # {}
       THEN /\ \E j \in dl.entries :
                 /\ disk' = [disk EXCEPT ![dl.module_id] = Del(@, j)]
                 /\ dl' = [dl EXCEPT !.entries = @ \ {j}]
            /\ UNCHANGED <<pc, result, up, pl, preCache>>
       ELSE IF DOMAIN disk[dl.module_id] = {}
       THEN /\ disk' = Del(disk, dl.module_id)
            /\ pc' = [pc EXCEPT !["delete"] = "reset"]
            /\ UNCHANGED <<result, dl, up, pl, preCache>>
       ELSE /\ Raise("delete")
            /\ UNCHANGED disk
    /\ UNCHANGED <<modules, seq, chunkDir, heap, CHUNKS>>

\* main.py:219-232, admin.py:39-43
remove_module ==
    \/ DeleteStart
    \/ DeleteRmtree
    \/ DeleteUnlink
    \/ preload_chunks("delete")

\* ------------------------------------------------------------------ kpir.py
\* Pad with another filler than the zero bytes of kpir.py:50
PadOnes(chunk) ==
    IF Len(chunk) < CHUNK_SIZE
    THEN chunk \o [i \in 1..(CHUNK_SIZE - Len(chunk)) |-> 1]
    ELSE chunk

\* kpir.py:49-50  pad to CHUNK_SIZE
Pad(chunk) ==
    IF Len(chunk) < CHUNK_SIZE
    THEN chunk \o [i \in 1..(CHUNK_SIZE - Len(chunk)) |-> 0]
    ELSE chunk

\* Row with the module's first chunk where kpir.py:46 takes b''
RowFirstChunk(cache, module_id, chunk_idx) ==
    Pad(IF chunk_idx \in DOMAIN cache[module_id] THEN cache[module_id][chunk_idx]
        ELSE cache[module_id][0])

\* kpir.py:46-52  the row of one module: cache[module_id].get(chunk_idx, b''), padded
Row(cache, module_id, chunk_idx) ==
    Pad(IF chunk_idx \in DOMAIN cache[module_id] THEN cache[module_id][chunk_idx] ELSE <<>>)

\* kpir.py:44-54  M = np.stack(chunks)
Matrix(cache, module_ids, chunk_idx) ==
    [i \in 1..Len(module_ids) |-> Row(cache, module_ids[i], chunk_idx)]

RECURSIVE DotTo(_, _, _, _)
\* (vec @ M)[col], summed over the first n rows
DotTo(v, M, col, n) == IF n = 0 THEN 0 ELSE DotTo(v, M, col, n - 1) + v[n] * M[n][col]

\* kpir.py:58-61  result = (vec @ M) % 256, as CHUNK_SIZE bytes
Respond(v, M) == [col \in 1..CHUNK_SIZE |-> DotTo(v, M, col, Len(v)) % 256]

ValueError == [error |-> TRUE, responses |-> <<>>]

\* The checks on the vectors without kpir.py:26-27's count of them
VectorsValidAnyCount(vectors, n_modules) ==
    \A i \in 1..Len(vectors) :
        /\ Len(vectors[i]) = n_modules
        /\ \A j \in 1..Len(vectors[i]) : vectors[i][j] >= 0 /\ vectors[i][j] <= 255

\* kpir.py:26-35  the checks compute makes on the vectors
VectorsValid(vectors, n_modules) ==
    /\ Len(vectors) = K
    /\ \A i \in 1..Len(vectors) :
         /\ Len(vectors[i]) = n_modules
         /\ \A j \in 1..Len(vectors[i]) : vectors[i][j] >= 0 /\ vectors[i][j] <= 255

\* kpir.py:14-63  ByteKpirEngine.compute on an engine built when the cache had
\* the keys module_ids; np.stack raises ValueError on rows of unequal length
compute(cache, module_ids, vectors, chunk_idx) ==
    IF ~VectorsValid(vectors, Len(module_ids)) THEN ValueError
    ELSE LET M == Matrix(cache, module_ids, chunk_idx)
         IN  IF \E i \in 1..Len(M) : Len(M[i]) # CHUNK_SIZE THEN ValueError
             ELSE [error |-> FALSE,
                   responses |-> [k \in 1..Len(vectors) |-> Respond(vectors[k], M)]]

\* --------------------------------------------------------------- session.py
Tokens == 1..MaxTokens

NoChain == [born |-> 0, at |-> 0, ok |-> FALSE]

NoSweep == [now |-> 0, size |-> 0, todo |-> {}, expired |-> <<>>]

\* An unhandled exception in create_session: the handler answers 500.
SessionRaise ==
    /\ spc' = "idle"
    /\ sl' = NoSweep
    /\ sOut' = [status |-> "500", token |-> 0]

\* main.py:109-111, session.py:17, session.py:10  now = time.time()
SessionStart ==
    /\ spc = "idle"
    /\ issued < MaxTokens
    /\ sl' = [NoSweep EXCEPT !.now = now]
    /\ spc' = "items"
    /\ sOut' = [status |-> "none", token |-> 0]
    /\ UNCHANGED <<SESSIONS, expires, issued, now, chain>>

\* session.py:11  SESSIONS.items(): the iterator notes the size of the dict
SweepItems ==
    /\ spc = "items"
    /\ sl' = [sl EXCEPT !.size = Cardinality(SESSIONS), !.todo = SESSIONS]
    /\ spc' = "next"
    /\ UNCHANGED <<SESSIONS, expires, issued, now, sOut, chain>>

\* session.py:11  now > s["expires"]
IsExpired(at, tok) == at > expires[tok]

\* session.py:11  one step of the iteration: RuntimeError when the dict changed
\* size, else the next entry in insertion order is tested; session.py:12 follows
\* the last one
SweepNext ==
    /\ spc = "next"
    /\ IF Cardinality(SESSIONS) # sl.size
       THEN SessionRaise
       ELSE IF sl.todo = {}
       THEN /\ spc' = "del"
            /\ UNCHANGED <<sl, sOut>>
       ELSE LET tok == Min(sl.todo) IN
            /\ sl' = [sl EXCEPT !.todo = @ \ {tok},
                                !.expired = IF IsExpired(sl.now, tok)
                                            THEN Append(@, tok) ELSE @]
            /\ UNCHANGED <<spc, sOut>>
    /\ UNCHANGED <<SESSIONS, expires, issued, now, chain>>

\* session.py:12-13  del SESSIONS[tok]: KeyError when the token is gone
SweepDel ==
    /\ spc = "del"
    /\ IF sl.expired = <<>>
       THEN /\ spc' = "insert"
            /\ UNCHANGED <<SESSIONS, sl, sOut>>
       ELSE IF Head(sl.expired) \in SESSIONS
       THEN /\ SESSIONS' = SESSIONS \ {Head(sl.expired)}
            /\ sl' = [sl EXCEPT !.expired = Tail(@)]
            /\ UNCHANGED <<spc, sOut>>
       ELSE /\ SessionRaise
            /\ UNCHANGED SESSIONS
    /\ UNCHANGED <<expires, issued, now, chain>>

\* A generator that hands out the token it handed out last
token_hex_last == IF issued = 0 THEN issued + 1 ELSE issued

\* session.py:18  secrets.token_hex(32): 256 random bits, a token not seen before
token_hex == issued + 1

\* session.py:18-23  the entry is stored with expires = time.time() + SESSION_TTL
SessionInsert ==
    /\ spc = "insert"
    /\ SESSIONS' = SESSIONS \cup {token_hex}
    /\ expires' = [expires EXCEPT ![token_hex] = now + SESSION_TTL]
    /\ issued' = issued + 1
    /\ chain' = [chain EXCEPT ![token_hex] = [born |-> now, at |-> now, ok |-> TRUE]]
    /\ spc' = "idle"
    /\ sl' = NoSweep
    /\ sOut' = [status |-> "200", token |-> token_hex]
    /\ UNCHANGED now

\* main.py:109-112, session.py:8-23
create_session ==
    \/ SessionStart
    \/ SweepItems
    \/ SweepNext
    \/ SweepDel
    \/ SessionInsert

\* the wall clock advances
Tick ==
    /\ now < MaxTime
    /\ now' = now + 1
    /\ UNCHANGED <<SESSIONS, expires, issued, spc, sl, sOut, chain>>

\* ------------------------------------------------------------ main.py /kpir
\* K vectors of length n, the first one the unit vector of position 1
UnitQuery(n) == [k \in 1..K |-> [j \in 1..n |-> IF k = 1 /\ j = 1 THEN 1 ELSE 0]]

\* The vector sets a client may send: none, well-formed ones of every length,
\* too few vectors, an entry outside 0..255, vectors of unequal lengths.
RequestVectors ==
    {<<>>} \cup {UnitQuery(n) : n \in 0..MaxModules}
           \cup {<< <<1>>, <<0>> >>, << <<256>>, <<0>>, <<0>> >>, << <<1>>, <<0, 0>>, <<0>> >>}

RequestIndexes == {0, 1}

NoRequest == [token |-> 0, vectors |-> <<>>, chunk_index |-> 0]

\* a response: its status, the responses of a 200, the numbers in the detail of
\* the 400 of main.py:150-156, and whether engine.compute was called
NoResponse == [status |-> "none", responses |-> <<>>, detail |-> <<>>, called |-> FALSE]

Reply(status) == [status |-> status, responses |-> <<>>, detail |-> <<>>, called |-> FALSE]

\* The handler is over: its locals are gone, its reference to the cache dict
\* with them, and a dict nothing refers to any more is freed.
KpirEnd(out) ==
    /\ kpc' = "idle"
    /\ kOut' = out
    /\ kReq' = NoRequest
    /\ kSess' = 0
    /\ kRef' = 0
    /\ kIds' = <<>>
    /\ kN' = 0
    /\ heap' = [d \in DictIds |-> IF d \in {CHUNKS, iRef} THEN heap[d] ELSE EmptyMap]

\* a POST /kpir request arrives; main.py:135 reads request.token.  The other
\* fields of the request enter the state where the handler first reads them.
KpirStart ==
    /\ kpc = "idle"
    /\ \E token \in Tokens : kReq' = [NoRequest EXCEPT !.token = token]
    /\ kpc' = "v_get"
    /\ kOut' = NoResponse
    /\ UNCHANGED <<kSess, kRef, kIds, kN, heap, SESSIONS, expires, chain>>

\* The history of a token after a validate_session of it returned at time `now`,
\* True when `success`
Called(c, success) ==
    [born |-> c.born,
     at   |-> IF success THEN now ELSE c.at,
     ok   |-> c.ok /\ now - c.at < SESSION_TTL]

\* session.py:27-29  session = SESSIONS.get(token); False when there is none,
\* and main.py:135-136 answers 401
ValidateGet ==
    /\ kpc = "v_get"
    /\ IF kReq.token \in SESSIONS
       THEN /\ kSess' = kReq.token
            /\ kpc' = "v_check"
            /\ UNCHANGED <<kReq, kOut, kRef, kIds, kN, heap, chain>>
       ELSE /\ KpirEnd(Reply("401"))
            /\ chain' = [chain EXCEPT ![kReq.token] = Called(@, FALSE)]
    /\ UNCHANGED <<SESSIONS, expires>>

\* session.py:30  if time.time() > session["expires"]
ValidateCheck ==
    /\ kpc = "v_check"
    /\ kpc' = IF IsExpired(now, kSess) THEN "v_del" ELSE "v_slide"
    /\ UNCHANGED <<kReq, kSess, kRef, kIds, kN, kOut, heap, SESSIONS, expires, chain>>

\* session.py:31-32  del SESSIONS[token]; return False (401).  KeyError, an
\* unhandled exception (500), when the token is gone.
ValidateDel ==
    /\ kpc = "v_del"
    /\ IF kReq.token \in SESSIONS
       THEN /\ SESSIONS' = SESSIONS \ {kReq.token}
            /\ KpirEnd(Reply("401"))
       ELSE /\ KpirEnd(Reply("500"))
            /\ UNCHANGED SESSIONS
    /\ chain' = [chain EXCEPT ![kReq.token] = Called(@, FALSE)]
    /\ UNCHANGED expires

\* ValidateSlide without the assignment of session.py:34
ValidateNoSlide ==
    /\ kpc = "v_slide"
    /\ chain' = [chain EXCEPT ![kSess] = Called(@, TRUE)]
    /\ kpc' = "k_vectors"
    /\ UNCHANGED <<kReq, kSess, kRef, kIds, kN, kOut, heap, SESSIONS, expires>>

\* session.py:34-35  session["expires"] = time.time() + SESSION_TTL; return True
ValidateSlide ==
    /\ kpc = "v_slide"
    /\ expires' = [expires EXCEPT ![kSess] = now + SESSION_TTL]
    /\ chain' = [chain EXCEPT ![kSess] = Called(@, TRUE)]
    /\ kpc' = "k_vectors"
    /\ UNCHANGED <<kReq, kSess, kRef, kIds, kN, kOut, heap, SESSIONS>>

\* session.py:26-35
validate_session ==
    \/ ValidateGet
    \/ ValidateCheck
    \/ ValidateDel
    \/ ValidateSlide

\* main.py:138-139  request.vectors is read: 400 on an empty vector set
KpirVectors ==
    /\ kpc = "k_vectors"
    /\ \E vectors \in RequestVectors :
         IF vectors = <<>>
         THEN KpirEnd(Reply("400"))
         ELSE /\ kReq' = [kReq EXCEPT !.vectors = vectors]
              /\ kpc' = "k_get"
              /\ UNCHANGED <<kSess, kRef, kIds, kN, kOut, heap>>
    /\ UNCHANGED <<SESSIONS, expires, chain>>

\* main.py:141-145  chunks = loader.get_chunks(); 503 when it is empty; else the
\* engine is built: kpir.py:6-12
KpirGet ==
    /\ kpc = "k_get"
    /\ IF DOMAIN get_chunks = {}
       THEN KpirEnd(Reply("503"))
       ELSE /\ kRef' = CHUNKS
            /\ kIds' = SortedSeq(DOMAIN get_chunks)
            /\ kpc' = "k_len"
            /\ UNCHANGED <<kReq, kSess, kN, kOut, heap>>
    /\ UNCHANGED <<SESSIONS, expires, chain>>

\* LengthMismatch that looks at the first vector only
LengthMismatchFirst(vectors, n_modules) == Len(vectors[1]) # n_modules

\* main.py:148-149  some vector's length differs from n_modules
LengthMismatch(vectors, n_modules) ==
    \E i \in 1..Len(vectors) : Len(vectors[i]) # n_modules

\* main.py:150-156  "Vector {i} has length {len(v)} but server has {n_modules}
\* module(s) loaded", for the first such vector
VectorLength(vectors, n_modules) ==
    LET i == Min({j \in 1..Len(vectors) : Len(vectors[j]) # n_modules} \cup {Len(vectors)})
    IN  [status |-> "400", responses |-> <<>>,
         detail |-> <<i - 1, Len(vectors[i]), n_modules>>, called |-> FALSE]

\* main.py:147-156  n_modules = len(loader.get_chunks()); 400 on a vector of
\* another length
KpirLen ==
    /\ kpc = "k_len"
    /\ LET n_modules == Cardinality(DOMAIN get_chunks) IN
         IF LengthMismatch(kReq.vectors, n_modules)
         THEN KpirEnd(VectorLength(kReq.vectors, n_modules))
         ELSE /\ kN' = n_modules
              /\ kpc' = "k_compute"
              /\ UNCHANGED <<kReq, kSess, kRef, kIds, kOut, heap>>
    /\ UNCHANGED <<SESSIONS, expires, chain>>

\* main.py:158-163  engine.compute(request.vectors, request.chunk_index); 400 on
\* ValueError, else the K responses
KpirCompute ==
    /\ kpc = "k_compute"
    /\ \E chunk_index \in RequestIndexes :
         LET r == compute(heap[kRef], kIds, kReq.vectors, chunk_index) IN
         KpirEnd([status |-> IF r.error THEN "400" ELSE "200",
                  responses |-> r.responses, detail |-> <<>>, called |-> TRUE])
    /\ UNCHANGED <<SESSIONS, expires, chain>>

\* main.py:133-163
kpir ==
    \/ KpirStart
    \/ validate_session
    \/ KpirVectors
    \/ KpirGet
    \/ KpirLen
    \/ KpirCompute

\* ------------------------------------------ main.py /integrity, integrity.py
NoQuery == [module_id |-> 0, chunk_index |-> 0]

NoHash == [status |-> "none", hash |-> <<>>]

\* hashlib.sha256(data).hexdigest(): a digest that tells apart the byte strings
\* of the model
sha256(data) == <<"sha256", data>>

\* The /integrity handler is over: its reference to the cache dict is dropped.
IntegrityEnd(out) ==
    /\ ipc' = "idle"
    /\ iOut' = out
    /\ iReq' = NoQuery
    /\ iRef' = 0
    /\ heap' = [d \in DictIds |-> IF d \in {CHUNKS, kRef} THEN heap[d] ELSE EmptyMap]

\* main.py:166-168  GET /integrity?module_id=..&chunk_index=..;
\* chunks = loader.get_chunks()
IntegrityGet ==
    /\ ipc = "idle"
    /\ \E module_id \in 1..(MaxModules + 1), chunk_index \in RequestIndexes :
         iReq' = [module_id |-> module_id, chunk_index |-> chunk_index]
    /\ iRef' = CHUNKS
    /\ iOut' = NoHash
    /\ ipc' = "i_module"
    /\ UNCHANGED heap

\* main.py:169-170  if module_id not in chunks: 404
IntegrityModule ==
    /\ ipc = "i_module"
    /\ IF iReq.module_id \notin DOMAIN heap[iRef]
       THEN IntegrityEnd([status |-> "404", hash |-> <<>>])
       ELSE /\ ipc' = "i_chunk"
            /\ UNCHANGED <<iReq, iRef, iOut, heap>>

\* main.py:171-172  if chunk_index not in chunks[module_id]: 404
IntegrityChunk ==
    /\ ipc = "i_chunk"
    /\ IF iReq.chunk_index \notin DOMAIN heap[iRef][iReq.module_id]
       THEN IntegrityEnd([status |-> "404", hash |-> <<>>])
       ELSE /\ ipc' = "i_hash"
            /\ UNCHANGED <<iReq, iRef, iOut, heap>>

\* main.py:173, integrity.py:5-7  get_chunks()[module_id][chunk_index] on the
\* dict CHUNKS is bound to by now: KeyError, an unhandled exception (500), when
\* it lacks the module or the chunk; else the digest of the bytes
get_chunk_hash ==
    /\ ipc = "i_hash"
    /\ IF /\ iReq.module_id \in DOMAIN get_chunks
          /\ iReq.chunk_index \in DOMAIN get_chunks[iReq.module_id]
       THEN IntegrityEnd([status |-> "200",
                          hash |-> sha256(get_chunks[iReq.module_id][iReq.chunk_index])])
       ELSE IntegrityEnd([status |-> "500", hash |-> <<>>])

\* main.py:166-173
integrity ==
    \/ IntegrityGet
    \/ IntegrityModule
    \/ IntegrityChunk
    \/ get_chunk_hash

\* ------------------------------------------------------------ initial states
\* loader.py:6, loader.py:61 on an empty data directory; main.py:66 init_db()
InitCache ==
    /\ modules = EmptyMap
    /\ seq = 0
    /\ chunkDir = FALSE
    /\ disk = EmptyMap
    /\ heap = [d \in DictIds |-> EmptyMap]
    /\ CHUNKS = 1
    /\ preCache = EmptyMap
    /\ pc = [p \in Procs |-> "idle"]
    /\ result = [p \in Procs |-> "none"]
    /\ up = NoUpload
    /\ dl = NoDelete
    /\ pl = [p \in Procs |-> NoLocals]

\* A server on which the payloads of `loaded` were uploaded, one after another
InitDeployed(loaded) ==
    /\ modules = [m \in 1..Len(loaded) |->
                     [chunk_count |-> ChunkCount(loaded[m]), compressed_size |-> Len(loaded[m])]]
    /\ seq = Len(loaded)
    /\ chunkDir = (Len(loaded) > 0)
    /\ disk = [m \in 1..Len(loaded) |-> ChunkList(loaded[m])]
    /\ heap = [d \in DictIds |-> IF d = 1 THEN [m \in 1..Len(loaded) |-> ChunkList(loaded[m])]
                                          ELSE EmptyMap]
    /\ CHUNKS = 1
    /\ preCache = EmptyMap
    /\ pc = [p \in Procs |-> "idle"]
    /\ result = [p \in Procs |-> "none"]
    /\ up = NoUpload
    /\ dl = NoDelete
    /\ pl = [p \in Procs |-> NoLocals]

InitKpir ==
    /\ kpc = "idle"
    /\ kReq = NoRequest
    /\ kSess = 0
    /\ kRef = 0
    /\ kIds = <<>>
    /\ kN = 0
    /\ kOut = NoResponse

\* session.py:5  SESSIONS = {}
InitSession ==
    /\ SESSIONS = {}
    /\ expires = [t \in Tokens |-> 0]
    /\ issued = 0
    /\ now = 0
    /\ spc = "idle"
    /\ sl = NoSweep
    /\ sOut = [status |-> "none", token |-> 0]
    /\ chain = [t \in Tokens |-> NoChain]

\* The session store after one POST /session at time 0
InitLoggedIn ==
    /\ SESSIONS = {1}
    /\ expires = [t \in Tokens |-> IF t = 1 THEN SESSION_TTL ELSE 0]
    /\ issued = 1
    /\ now = 0
    /\ spc = "idle"
    /\ sl = NoSweep
    /\ sOut = [status |-> "200", token |-> 1]
    /\ chain = [t \in Tokens |-> IF t = 1 THEN [born |-> 0, at |-> 0, ok |-> TRUE] ELSE NoChain]

InitPirIdle ==
    /\ pirCache = EmptyMap
    /\ pirIdx = 0
    /\ pirVectors = <<>>
    /\ pirOther = <<>>
    /\ pirOut = ValueError
    /\ pirOtherOut = ValueError

InitIntegrity ==
    /\ ipc = "idle"
    /\ iReq = NoQuery
    /\ iRef = 0
    /\ iOut = NoHash

\* catalog.py:34-43  an empty quizzes table
InitQuiz ==
    /\ quizzes = EmptyMap
    /\ qseq = 0
    /\ qOut = [call |-> "none", id |-> 0, ok |-> FALSE]
    /\ assigned = {}

InitBucketIdle ==
    /\ bRows = EmptyMap
    /\ bQuery = [topic |-> "None", tier |-> -1]
    /\ bOut = <<>>

InitAux == InitIntegrity /\ InitQuiz /\ InitBucketIdle

\* The payload of the m-th module of a deployed server
Deployed(n) == [m \in 1..n |-> [i \in 1..(((m - 1) % MaxPayload) + 1) |-> (85 * i) % 256]]

\* ------------------------------------------------------------------- Spec
\* The catalog, the chunk directory and the chunk cache under uploads and
\* deletes, from an empty data directory.
Init == InitCache /\ InitKpir /\ InitLoggedIn /\ InitPirIdle /\ InitAux

Upload == upload_module /\ UNCHANGED <<kpirVars, sessionVars, pirVars, auxVars>>

Delete == remove_module /\ UNCHANGED <<kpirVars, sessionVars, pirVars, auxVars>>

Next == Upload \/ Delete

Spec == Init /\ [][Next]_vars

\* --------------------------------------------------------------- SpecKpir
\* /kpir requests of a client that holds a live session, served while modules
\* of a deployed server are deleted and the cache reloaded.
InitServing ==
    /\ \E n \in 0..MaxModules : InitDeployed(Deployed(n))
    /\ InitKpir /\ InitLoggedIn /\ InitPirIdle /\ InitAux

Kpir ==
    /\ kpir
    /\ UNCHANGED <<modules, seq, chunkDir, disk, CHUNKS, preCache, pc, result, up, dl, pl>>
    /\ UNCHANGED <<issued, now, spc, sl, sOut, pirVars, auxVars>>

NextKpir == Delete \/ Kpir

SpecKpir == InitServing /\ [][NextKpir]_vars

\* ------------------------------------------------------------ SpecSession
\* The session store under POST /session, POST /kpir and the passing of time,
\* on a server without modules and on one with MaxModules modules.
InitSessions ==
    /\ \E n \in {0, MaxModules} : InitDeployed(Deployed(n))
    /\ InitKpir /\ InitSession /\ InitPirIdle /\ InitAux

Session ==
    /\ create_session
    /\ UNCHANGED <<cacheVars, kpirVars, pirVars, auxVars>>

Clock ==
    /\ Tick
    /\ UNCHANGED <<cacheVars, kpirVars, pirVars, auxVars>>

NextSession == Session \/ Clock \/ Kpir

SpecSession == InitSessions /\ [][NextSession]_vars

\* ---------------------------------------------------------------- SpecPir
\* ByteKpirEngine.compute as a function of its inputs: a cache of modules that
\* were preprocessed (chunks of at most CHUNK_SIZE bytes, only the last one
\* short), a chunk index and K vectors over Z_256.
\* preprocess.py:23-30  the chunks of the m-th module; the first module is the
\* longest one
PirChunks(m) ==
    ChunkList([i \in 1..(IF m <= MaxPayload THEN MaxPayload + 1 - m ELSE 1) |->
                   (85 * i + 16 * m) % 256])

\* the coefficients a query is built from: 0, 1 and -1 mod 256
Coefficients == {0, 1, 255}

\* kpir.py:6-9  the engine is built on a non-empty cache; chunk_idx is chosen
InitPir ==
    /\ \E ids \in (SUBSET (1..MaxPirModules)) \ {{}} : pirCache = [m \in ids |-> PirChunks(m)]
    /\ pirIdx \in RequestIndexes
    /\ pirVectors = <<>>
    /\ pirOther = <<>>
    /\ pirOut = ValueError
    /\ pirOtherOut = ValueError

\* kpir.py:8  self.module_ids = sorted(cache.keys())
module_ids == SortedSeq(DOMAIN pirCache)

\* kpir.py:14-63  compute(vectors, chunk_idx) is called with K vectors of length
\* n_modules
PirQuery ==
    /\ pirVectors = <<>>
    /\ \E vectors \in [1..K -> [1..Len(module_ids) -> Coefficients]] :
         /\ pirVectors' = vectors
         /\ pirOther' = vectors
         /\ pirOut' = compute(pirCache, module_ids, vectors, pirIdx)
         /\ pirOtherOut' = compute(pirCache, module_ids, vectors, pirIdx)
    /\ UNCHANGED <<pirCache, pirIdx>>

\* kpir.py:14-63  compute is called again, on vectors that differ in the
\* coefficients of one module that has no chunk at chunk_idx
PirRequery ==
    /\ pirVectors # <<>>
    /\ pirOther = pirVectors
    /\ \E j \in 1..Len(module_ids), column \in [1..K -> Coefficients] :
         /\ pirIdx \notin DOMAIN pirCache[module_ids[j]]
         /\ \E k \in 1..K : column[k] # pirVectors[k][j]
         /\ LET other == [k \in 1..K |-> [pirVectors[k] EXCEPT ![j] = column[k]]] IN
              /\ pirOther' = other
              /\ pirOtherOut' = compute(pirCache, module_ids, other, pirIdx)
    /\ UNCHANGED <<pirCache, pirIdx, pirVectors, pirOut>>

InitEngine == InitCache /\ InitKpir /\ InitLoggedIn /\ InitPir /\ InitAux

Query == PirQuery /\ UNCHANGED <<cacheVars, kpirVars, sessionVars, auxVars>>

Requery == PirRequery /\ UNCHANGED <<cacheVars, kpirVars, sessionVars, auxVars>>

NextPir == Query \/ Requery

SpecPir == InitEngine /\ [][NextPir]_vars

\* ---------------------------------------------------------- SpecIntegrity
\* GET /integrity requests served while modules of a deployed server are
\* deleted and the cache reloaded.
Integrity ==
    /\ integrity
    /\ UNCHANGED <<modules, seq, chunkDir, disk, CHUNKS, preCache, pc, result, up, dl, pl>>
    /\ UNCHANGED <<kpirVars, sessionVars, pirVars, quizVars, bucketVars>>

NextIntegrity == Delete \/ Integrity

SpecIntegrity == InitServing /\ [][NextIntegrity]_vars

\* ------------------------------------------------------------ SpecCatalog
\* The modules and quizzes tables under the calls of catalog.py, one at a time
\* (each call is one SQLite transaction).
AddModule == CatAddModule /\ UNCHANGED <<kpirVars, sessionVars, pirVars, integrityVars, bucketVars>>

DeleteModule == CatDeleteModule /\ UNCHANGED <<kpirVars, sessionVars, pirVars, integrityVars, bucketVars>>

AddQuiz == add_quiz_question /\ UNCHANGED <<kpirVars, sessionVars, pirVars, integrityVars, bucketVars>>

DeleteQuiz == delete_quiz_question /\ UNCHANGED <<kpirVars, sessionVars, pirVars, integrityVars, bucketVars>>

NextCatalog == AddModule \/ DeleteModule \/ AddQuiz \/ DeleteQuiz

SpecCatalog == Init /\ [][NextCatalog]_vars

\* ------------------------------------------------------------- SpecIngest
\* Uploads, one after the other, with nothing else touching the catalog, the
\* chunk directory or the cache.
NextIngest == Upload

SpecIngest == Init /\ [][NextIngest]_vars

\* -------------------------------------------------------------- SpecCrash
\* Uploads on a server process that can be killed inside the upload handler
\* and started again.  The database and the chunk directory survive; the
\* cache and the handler's locals do not.

\* The process dies inside handle_upload, after add_module (admin.py:28-30,
\* preprocess.py:33) committed the row.  No response is sent.  `up` stays as
\* the record of where the ingest stopped until the process is started again.
Crash ==
    /\ pc["upload"] \notin {"idle", "down"}
    /\ pc' = [p \in Procs |-> "down"]
    /\ result' = [result EXCEPT !["upload"] = "none"]
    /\ heap' = [d \in DictIds |-> EmptyMap]
    /\ CHUNKS' = 1
    /\ preCache' = IF InReload THEN preCache ELSE get_chunks
    /\ pl' = [p \in Procs |-> NoLocals]
    /\ UNCHANGED <<modules, seq, chunkDir, disk, up, dl>>

\* loader.py:20-58 run to its end on the directory and the rows as they are
StartupCache ==
    IF chunkDir
    THEN [m \in {d \in DOMAIN disk : d \in _get_valid_module_ids} |-> disk[m]]
    ELSE EmptyMap

\* loader.py:61  the import-time preload_chunks(), before any request is
\* served; main.py:66 init_db() finds the tables and changes nothing.
Startup ==
    /\ pc["upload"] = "down"
    /\ CHUNKS' = 1
    /\ heap' = [d \in DictIds |-> IF d = 1 THEN StartupCache ELSE EmptyMap]
    /\ pc' = [p \in Procs |-> "idle"]
    /\ up' = NoUpload
    /\ UNCHANGED <<modules, seq, chunkDir, disk, preCache, result, dl, pl>>

InitCrash ==
    /\ \E n \in 0..(MaxModules - 1) : InitDeployed(Deployed(n))
    /\ InitKpir /\ InitLoggedIn /\ InitPirIdle /\ InitAux

Killed == Crash /\ UNCHANGED <<kpirVars, sessionVars, pirVars, auxVars>>

Restart == Startup /\ UNCHANGED <<kpirVars, sessionVars, pirVars, auxVars>>

NextCrash == Upload \/ Killed \/ Restart

SpecCrash == InitCrash /\ [][NextCrash]_vars

\* ------------------------------------------------------------- SpecBucket
\* get_bucket as a function of the modules table and of its two arguments.
\* Python's None is "None" for a topic and -1 for a tier; tiers of rows and of
\* queries are 0 or more.
Topics == {"", "math"}

Tiers == {0, 1}

\* catalog.py:84  `if topic:`: None and "" are falsy
TruthyTopic(topic) == topic \notin {"None", ""}

\* catalog.py:88  `if tier:`: None and 0 are falsy
TruthyTier(tier) == tier \notin {-1, 0}

\* catalog.py:73-109  WHERE 1=1 [AND topic=?] [AND tier=?] ORDER BY id ASC
GetBucket(rows, topic, tier) ==
    SortedSeq({m \in DOMAIN rows :
                  /\ TruthyTopic(topic) => rows[m].topic = topic
                  /\ TruthyTier(tier) => rows[m].tier = tier})

\* a modules table of up to MaxModules rows
InitBucket ==
    /\ InitCache /\ InitKpir /\ InitLoggedIn /\ InitPirIdle /\ InitIntegrity /\ InitQuiz
    /\ \E n \in 0..MaxModules :
         bRows \in [1..n -> [topic : Topics, tier : Tiers]]
    /\ bQuery = [topic |-> "None", tier |-> -1]
    /\ bOut = <<>>

\* main.py:128  get_bucket(topic, tier)
BucketCall ==
    /\ \E topic \in Topics \cup {"None"}, tier \in Tiers \cup {-1} :
         /\ bQuery' = [topic |-> topic, tier |-> tier]
         /\ bOut' = GetBucket(bRows, topic, tier)
    /\ UNCHANGED <<cacheVars, kpirVars, sessionVars, pirVars, integrityVars, quizVars, bRows>>

NextBucket == BucketCall

SpecBucket == InitBucket /\ [][NextBucket]_vars

\* -------------------------------------------------------------- SpecAdmin
\* One administrator: the operations that are accepted run one after the
\* other, a request that is rejected may arrive at any moment.
AdminUpload == Upload /\ (pc["delete"] = "idle" \/ pc' = pc)

AdminDelete == Delete /\ (pc["upload"] = "idle" \/ pc' = pc)

NextAdmin == AdminUpload \/ AdminDelete

SpecAdmin == Init /\ [][NextAdmin]_vars

\* ------------------------------------------------------------------ claims
\* main.py:115-130  GET /catalog without filters: the ids of the rows of
\* get_bucket() that are keys of the cache, in the order of the rows
\* GET /catalog without main.py:129's `m["id"] in chunks` filter
catalog_all_rows == get_bucket

catalog == SelectSeq(get_bucket, LAMBDA m : m \in DOMAIN get_chunks)

\* the integer-named .bin files present in chunks/<m>/
DiskFiles(m) == IF m \in DOMAIN disk THEN DOMAIN disk[m] ELSE {}

Quiescent == \A p \in Procs : pc[p] = "idle"

\* C3: in every reachable state, the intermediate steps of an upload and of a
\* delete included, the ids an unfiltered GET /catalog returns are exactly the
\* ascending keys of the chunk cache POST /kpir uses.
C3_CatalogIsCacheKeys == catalog = SortedSeq(DOMAIN get_chunks)

\* C4: whenever no upload, delete or preload_chunks() is in progress, every key
\* of the chunk cache has a catalog row and its cached chunk indices are exactly
\* the <j>.bin files present in its directory.
C4_QuiescentCoherence ==
    Quiescent =>
        /\ DOMAIN get_chunks \subseteq DOMAIN modules
        /\ \A m \in DOMAIN get_chunks : DOMAIN get_chunks[m] = DiskFiles(m)

\* The module set of the cache before, and the one after, the reload in progress
PreModules == IF InReload THEN DOMAIN preCache ELSE DOMAIN get_chunks

PostModules == IF InReload THEN (DOMAIN modules) \cap (DOMAIN disk) ELSE DOMAIN get_chunks

\* C1: while preload_chunks() runs, a request that called get_chunks() sees, for
\* every module of the mapping it obtained, either that module's complete chunk
\* set from before the reload or its complete chunk set after it, never a part.
C1_NoPartialModule ==
    (InReload /\ kRef # 0) =>
        \A m \in DOMAIN heap[kRef] :
            \/ m \in DOMAIN preCache /\ DOMAIN heap[kRef][m] = DOMAIN preCache[m]
            \/ m \in DOMAIN modules /\ DOMAIN heap[kRef][m] = DiskFiles(m)

\* the module set main.py:141-145 obtains is the one before or the one after the reload
C2_Snapshot ==
    (kpc = "k_get" /\ kpc' # "k_get") =>
        (IF kpc' = "k_len" THEN Range(kIds') ELSE {}) \in {PreModules, PostModules}

\* C2: a /kpir request concurrent with a reload validates the vector lengths
\* against, and computes from, one module set: the complete one before or the
\* complete one after the reload (so no 503 and no strict subset when both are
\* non-empty), and the count the route checks is the count the engine uses.
C2_OneModuleSet ==
    /\ [][C2_Snapshot]_vars
    /\ [](kpc = "k_compute" => kN = Len(kIds))

\* ---- C7
\* this step ends a request that has read its vectors
RequestEnds == kpc \in {"k_get", "k_len", "k_compute"} /\ kpc' = "idle"

\* C7: a /kpir request in which some vector's length differs from the number of
\* loaded modules is answered 400 and compute is not invoked for it.
C7_MismatchIs400 ==
    [][(/\ RequestEnds
        /\ \E i \in DOMAIN kReq.vectors :
              Len(kReq.vectors[i]) # Cardinality(DOMAIN get_chunks))
          => (kOut'.status = "400" /\ ~kOut'.called)]_vars

\* C7 as amended: a request with a valid session and a non-empty vector set that
\* finds the cache non-empty, and in which some vector's length differs from the
\* module count n the route reads at main.py:147, is answered 400 without
\* compute being invoked.
C7_MismatchIs400_Amended ==
    [][(/\ kpc = "k_len" /\ kpc' # "k_len"
        /\ \E i \in DOMAIN kReq.vectors :
              Len(kReq.vectors[i]) # Cardinality(DOMAIN get_chunks))
          => (kpc' = "idle" /\ kOut'.status = "400" /\ ~kOut'.called)]_vars

\* a request with a vector of another length than the two loaded modules was
\* answered 400 by the length check
C7_Witness ==
    /\ kpc = "idle" /\ kOut.status = "400" /\ ~kOut.called
    /\ kOut.detail # <<>> /\ kOut.detail[3] = 2 /\ kOut.detail[2] # 2

\* ---- C5, C6
\* the componentwise sum mod 256 of the K vectors, at position j
QuerySum(vectors, j) == (vectors[1][j] + vectors[2][j] + vectors[3][j]) % 256

\* the K vectors sum to the unit vector of position i
SelectsModule(vectors, i) ==
    \A j \in 1..Len(module_ids) : QuerySum(vectors, j) = (IF j = i THEN 1 ELSE 0)

\* the componentwise sum mod 256 of the K responses
Combined(responses) ==
    [col \in 1..CHUNK_SIZE |-> (responses[1][col] + responses[2][col] + responses[3][col]) % 256]

HasChunk(i) == pirIdx \in DOMAIN pirCache[module_ids[i]]

\* C5: when the K vectors sum mod 256 to the unit vector of module i and module
\* i has a chunk at chunk_idx (of at most CHUNK_SIZE bytes), the sum mod 256 of
\* the K responses is that chunk followed by zeros up to CHUNK_SIZE bytes.
C5_Reconstruction ==
    pirVectors # <<>> =>
        \A i \in 1..Len(module_ids) :
            (SelectsModule(pirVectors, i) /\ HasChunk(i)
                /\ Len(pirCache[module_ids[i]][pirIdx]) <= CHUNK_SIZE) =>
                /\ ~pirOut.error
                /\ Combined(pirOut.responses) =
                     [col \in 1..CHUNK_SIZE |->
                        IF col <= Len(pirCache[module_ids[i]][pirIdx])
                        THEN pirCache[module_ids[i]][pirIdx][col] ELSE 0]

\* a query for the short last chunk of the first of two modules, its
\* coefficients wrapping around mod 256, was answered
C5_Witness ==
    /\ pirVectors # <<>> /\ ~pirOut.error
    /\ Len(module_ids) = 2 /\ SelectsModule(pirVectors, 1) /\ HasChunk(1)
    /\ Len(pirCache[module_ids[1]][pirIdx]) < CHUNK_SIZE
    /\ pirVectors[1][1] = 255
    /\ pirVectors[2][2] = 1

\* C6: a module without a chunk at chunk_idx contributes zero: other
\* coefficients at its position leave all K responses as they were, and when the
\* module the vectors select has no chunk at chunk_idx the sum mod 256 of the
\* responses is CHUNK_SIZE zero bytes and no error is raised.
C6_MissingChunkIsZero ==
    pirVectors # <<>> =>
        /\ (\A j \in 1..Len(module_ids) :
               (\E k \in 1..K : pirOther[k][j] # pirVectors[k][j]) => ~HasChunk(j))
             => (~pirOtherOut.error /\ pirOtherOut.responses = pirOut.responses)
        /\ \A i \in 1..Len(module_ids) :
             (SelectsModule(pirVectors, i) /\ ~HasChunk(i)) =>
                 /\ ~pirOut.error
                 /\ Combined(pirOut.responses) = [col \in 1..CHUNK_SIZE |-> 0]

\* compute ran again with other coefficients for a module without the chunk,
\* next to a module that has it and is selected
C6_Witness ==
    /\ pirVectors # <<>> /\ pirOther # pirVectors
    /\ \E i, j \in 1..Len(module_ids) :
         /\ HasChunk(i) /\ SelectsModule(pirOther, i)
         /\ ~HasChunk(j) /\ \E k \in 1..K : pirOther[k][j] # pirVectors[k][j]
    /\ ~pirOtherOut.error

\* ---- C8, C9, C10
\* this step is the return of the validate_session call main.py:135 makes
ValidateReturns ==
    /\ kpc \in {"v_get", "v_del", "v_slide"}
    /\ kpc' \notin {"v_get", "v_check", "v_del", "v_slide"}

\* C8: a validate_session of a created token returns True whenever it and every
\* earlier validate_session of that token returned less than SESSION_TTL after
\* the previous True one (the first one after the creation), however long ago
\* the token was created and whatever create_session calls ran in between.
C8_SlidingKeepsAlive ==
    [][(ValidateReturns /\ chain'[kReq.token].ok) => kpc' = "k_vectors"]_vars

\* validate_session returned True more than SESSION_TTL after the creation of
\* the token, and a later create_session swept the store in between
C8_Witness ==
    /\ kpc = "k_vectors" /\ kSess = 1
    /\ chain[1].ok /\ chain[1].at = now
    /\ now > chain[1].born + SESSION_TTL
    /\ issued = 2 /\ chain[2].born > chain[1].born

\* C9: validate_session returns True or False; for a token that is not in the
\* store it returns False and leaves the store as it is; for a token whose
\* deadline has passed it returns False and the entry is removed.
C9_ValidateContract ==
    [][ValidateReturns =>
          /\ kpc' = "k_vectors" \/ kOut'.status = "401"
          /\ (kpc = "v_get" /\ kReq.token \notin SESSIONS) =>
                (kOut'.status = "401" /\ SESSIONS' = SESSIONS)
          /\ kpc = "v_del" => (kOut'.status = "401" /\ kReq.token \notin SESSIONS')]_vars

\* C10: a /kpir request whose token was never issued, or whose token's deadline
\* validate_session finds passed, is answered 401 and compute is not invoked.
C10_InvalidTokenIs401 ==
    [][(/\ kpc' # kpc
        /\ (kpc = "v_get" /\ kReq.token > issued) \/ kpc = "v_del")
          => (kpc' = "idle" /\ kOut'.status = "401" /\ ~kOut'.called)]_vars

\* ---- C11
\* C11: a GET /integrity request ends either with 404 or with the SHA-256 digest
\* of the stored, unpadded bytes of the chunk; nothing else, also while a reload
\* runs.
C11_TwoOutcomes ==
    [][(ipc # "idle" /\ ipc' = "idle") =>
          \/ iOut'.status = "404"
          \/ /\ iOut'.status = "200"
             /\ \E m \in DOMAIN heap[iRef], j \in RequestIndexes :
                   /\ m = iReq.module_id /\ j = iReq.chunk_index
                   /\ j \in DOMAIN heap[iRef][m]
                   /\ iOut'.hash = sha256(heap[iRef][m][j])]_vars

\* ---- C12
\* this step is the 200 response of DELETE /admin/modules/{dl.module_id}
DeleteSucceeds ==
    pc["delete"] # "idle" /\ pc'["delete"] = "idle" /\ result'["delete"] = "200"

\* C12: when DELETE /admin/modules/{m} answers success, m has no catalog row,
\* chunks/<m>/ does not exist and m is no key of the chunk cache, so that
\* GET /catalog does not list m.
C12_DeletedIsGone ==
    [][DeleteSucceeds =>
          /\ dl.module_id \notin DOMAIN modules'
          /\ dl.module_id \notin DOMAIN disk'
          /\ dl.module_id \notin DOMAIN heap'[CHUNKS']
          /\ dl.module_id \notin Range(SelectSeq(SortedSeq(DOMAIN modules'),
                                         LAMBDA m : m \in DOMAIN heap'[CHUNKS']))]_vars

\* ---- C13
\* C13: after delete_module(m) returned true no quiz question of m is left, so
\* get_quiz(m) is empty, and every quiz row references an existing module row.
C13_QuizCascade ==
    /\ (qOut.call = "delete_module" /\ qOut.ok) => get_quiz(qOut.id) = <<>>
    /\ \A q \in DOMAIN quizzes : quizzes[q] \in DOMAIN modules

\* ---- C14
\* C14: every id add_module returns is larger than every id it returned before,
\* whatever was deleted in between.
C14_IdsIncrease ==
    [][seq' = seq + 1 => \A i \in assigned : qOut'.id > i]_vars

\* add_module returned a new id after the module with the highest id so far
\* had been deleted
C14_Witness ==
    /\ qOut.call = "add_module" /\ qOut.id = 2
    /\ assigned = {1, 2}
    /\ DOMAIN modules = {2}

\* ---- C15
\* this step is the return of process_module (preprocess.py:43)
ProcessModuleReturns == pc["upload"] = "write" /\ pc'["upload"] = "reset"

RECURSIVE Concat(_, _)
\* the files 0.bin .. (n-1).bin of a directory, one after the other
Concat(files, n) == IF n = 0 THEN <<>> ELSE Concat(files, n - 1) \o files[n - 1]

\* C15: when process_module returns (module_id, chunk_count, compressed_size),
\* chunks/<module_id>/ holds exactly 0.bin .. (chunk_count-1).bin with
\* chunk_count = ceil(compressed_size / CHUNK_SIZE), every chunk but the last
\* has CHUNK_SIZE bytes, the last has 1..CHUNK_SIZE, and the chunks in index
\* order make up the compressed bytes.
C15_ChunkFiles ==
    [][ProcessModuleReturns =>
          LET row == modules'[up.module_id]
              files == disk'[up.module_id]
              n == row.chunk_count
          IN  /\ row.compressed_size = Len(up.compressed)
              /\ (n - 1) * CHUNK_SIZE < row.compressed_size
              /\ row.compressed_size <= n * CHUNK_SIZE
              /\ DOMAIN files = 0..(n - 1)
              /\ \A j \in 0..(n - 2) : Len(files[j]) = CHUNK_SIZE
              /\ Len(files[n - 1]) >= 1 /\ Len(files[n - 1]) <= CHUNK_SIZE
              /\ Concat(files, n) = up.compressed]_vars

\* process_module has returned for a second module, of two chunks with a short
\* last one
C15_Witness ==
    /\ pc["upload"] = "reset" /\ up.module_id = 2
    /\ DOMAIN disk[2] = {0, 1}
    /\ Len(disk[2][1]) < CHUNK_SIZE

\* ---- C16
\* C16: in every state with no ingest in progress, the restart after an ingest
\* that crashed part-way through its chunk files included, every module in the
\* cache has a row and its cached chunk indices are exactly
\* 0 .. chunk_count - 1 of that row.
C16_CacheMatchesRows ==
    pc["upload"] = "idle" =>
        \A m \in DOMAIN get_chunks :
            /\ m \in DOMAIN modules
            /\ DOMAIN get_chunks[m] = 0..(modules[m].chunk_count - 1)

\* ---- C20
\* the rows whose chunk directory was never created
Orphans == DOMAIN modules \ DOMAIN disk

\* the process starts again after an ingest died between the row insert and
\* the creation of its chunk directory
RestartAfterEarlyCrash ==
    /\ pc["upload"] = "down" /\ pc'["upload"] = "idle"
    /\ up.module_id \in Orphans

\* an upload answers 200 on a server that has an orphan row
RetrySucceeds ==
    /\ pc["upload"] \in PreloadPcs /\ pc'["upload"] = "idle"
    /\ result'["upload"] = "200"
    /\ Orphans # {}

\* C20: an ingest that crashed after its row was inserted and before its chunk
\* directory was created leaves, after the next preload_chunks(), a row that is
\* not in the cache and not in GET /catalog, and a cache with as many modules
\* as before (the /kpir vector length); an upload retried afterwards gets a
\* fresh id and is retrievable.
C20_EarlyCrashIsHarmless ==
    [][/\ RestartAfterEarlyCrash =>
            /\ up.module_id \in DOMAIN modules'
            /\ up.module_id \notin DOMAIN get_chunks'
            /\ up.module_id \notin Range(catalog')
            /\ Cardinality(DOMAIN get_chunks') = Cardinality(DOMAIN preCache)
       /\ RetrySucceeds =>
            /\ \A o \in Orphans : up.module_id > o
            /\ up.module_id \in DOMAIN get_chunks'
            /\ get_chunks'[up.module_id] = up.chunks
            /\ up.module_id \in Range(catalog')
            /\ \A o \in Orphans : o \notin DOMAIN get_chunks' /\ o \notin Range(catalog')]_vars

\* the first ingest died before its directory existed, the retried upload was
\* stored as module 2 and is served
C20_Witness ==
    /\ pc["upload"] = "idle" /\ result["upload"] = "200"
    /\ Orphans = {1}
    /\ DOMAIN get_chunks = {2}
    /\ catalog = <<2>>

\* ---- C17
\* the rows that match every filter that was supplied (is not None)
Matching(rows, topic, tier) ==
    {m \in DOMAIN rows :
        /\ topic # "None" => rows[m].topic = topic
        /\ tier # -1 => rows[m].tier = tier}

\* C17: get_bucket(topic, tier) returns exactly the rows that match every
\* supplied filter, in ascending id order, for every supplied value, tier 0 and
\* the empty topic included; with no filter it returns all rows.
C17_BucketFilters ==
    [][(bOut' # bOut \/ bQuery' # bQuery) =>
          /\ Range(bOut') = Matching(bRows, bQuery'.topic, bQuery'.tier)
          /\ Len(bOut') = Cardinality(Range(bOut'))
          /\ \A i, j \in 1..Len(bOut') : i < j => bOut'[i] < bOut'[j]]_vars

\* ---- C18
\* this step ends a POST /kpir request, at whichever line
KpirAnswers == kpc # "idle" /\ kpc' = "idle"

\* C18: POST /kpir is all-or-nothing.  A success carries exactly K responses of
\* CHUNK_SIZE bytes each; a request that violates a precondition (a number of
\* vectors other than K, a vector whose length is not the engine's module
\* count, an entry outside 0..255, an empty cache) gets an error status and no
\* responses.
C18_AllOrNothing ==
    [][KpirAnswers =>
          IF kOut'.status = "200"
          THEN /\ Len(kOut'.responses) = K
               /\ \A k \in 1..K :
                    /\ Len(kOut'.responses[k]) = CHUNK_SIZE
                    /\ \A b \in 1..CHUNK_SIZE :
                         kOut'.responses[k][b] >= 0 /\ kOut'.responses[k][b] <= 255
               /\ Len(kReq.vectors) = K
               /\ kIds # <<>>
               /\ \A i \in 1..Len(kReq.vectors) :
                    /\ Len(kReq.vectors[i]) = Len(kIds)
                    /\ \A j \in 1..Len(kReq.vectors[i]) :
                         kReq.vectors[i][j] >= 0 /\ kReq.vectors[i][j] <= 255
          ELSE /\ kOut'.status \in {"400", "401", "503"}
               /\ kOut'.responses = <<>>]_vars

\* a request for two loaded modules was answered with K responses
C18_Witness ==
    /\ kpc = "idle" /\ kOut.status = "200"
    /\ Len(kOut.responses) = K
    /\ Cardinality(DOMAIN get_chunks) = 2

\* ---- C19
\* the tokens create_session has returned so far: those that were given an expiry
Returned == {t \in Tokens : expires[t] # 0}

\* this step is the return of create_session (session.py:19-23)
CreateReturns == spc = "insert" /\ spc' = "idle" /\ sOut'.status = "200"

CreateEnds == spc # "idle" /\ spc' = "idle"

\* C21: under any interleaving of create_session, its sweep included, and
\* validate_session, every call ends with its normal result (a token, True or
\* False), never with an exception raised because the other call removed or
\* inserted an entry in between; and validate_session never returns True for a
\* token the sweep has removed.
C21_StoreIsSafe ==
    [][/\ CreateEnds => sOut'.status = "200"
       /\ ValidateReturns => (kpc' = "k_vectors" \/ kOut'.status = "401")
       /\ (ValidateReturns /\ kpc' = "k_vectors") => kSess \in SESSIONS]_vars

\* ---- C22
\* this step answers an admin request with 403 or 404
Rejected(p) == result'[p] \in {"403", "404"} /\ result'[p] # result[p]

\* C22: a rejected admin operation (a DELETE with a wrong admin key or for an
\* id without a row, an upload with a wrong admin key) leaves the catalog rows,
\* the chunk directories and the chunk cache as they were and starts no reload.
C22_RejectedChangesNothing ==
    [][(\E p \in Procs : Rejected(p)) =>
          /\ modules' = modules /\ seq' = seq
          /\ chunkDir' = chunkDir /\ disk' = disk
          /\ CHUNKS' = CHUNKS /\ heap' = heap
          /\ pc' = pc]_vars

\* a DELETE with a wrong key was answered 403 while module 1 was stored and
\* served, and it still is
C22_Witness ==
    /\ result["delete"] = "403"
    /\ pc["delete"] = "idle"
    /\ 1 \in DOMAIN modules /\ 1 \in DOMAIN disk /\ 1 \in DOMAIN get_chunks

====
